---- MODULE Spec2Model ----
(***************************************************************************)
(* The in-memory job queue (JobQueueService) of the repository analysis    *)
(* pipeline and the analysis handler that runs on it                       *)
(* (RepositoryService.handleAnalyzeJob).                                   *)
(*                                                                         *)
(* JavaScript runs every callback to completion: a state of this model is  *)
(* a point at which the queue's code is either back in the event loop or   *)
(* at the top of one iteration of processQueue's `while (true)` loop.      *)
(* While the drain loop is on the call stack (drainPc = "running") no      *)
(* other callback can run, so every other action is disabled.              *)
(***************************************************************************)
EXTENDS Integers, Sequences, FiniteSets, TLC

VARIABLES
    jobs,        \* this.jobs: the Map in insertion order, a sequence of Job records
    handlers,    \* this.handlers: job type -> the handler registered for it ("none": no entry)
    processing,  \* this.processing
    activeJobs,  \* this.activeJobs
    drainPc,     \* where processQueue is: "idle" (not invoked), "running", "waiting" (in setTimeout)
    running,     \* job id -> position of the handler processJob is awaiting (pc "none": no call in flight)
    nextId,      \* the next fresh job id (addJob's ids are unique)
    now,         \* Date.now()
    projects,    \* the projects table: project id -> its row ("none": no row)
    held,        \* what the last getJob / getProjectJobs call returned to its caller
    disk,        \* project id -> the repository on disk as a run of handleAnalyzeJob finds it
    tables,      \* project id -> its rows in the files table and the files whose facts are stored
    history,     \* project id -> the batches the persist loop took, the files the parse loop visited
    tree,        \* the directory a discoverFiles call walks: the files fast-glob lists
    discovery,   \* the discoverFiles call: its position and its local variables
    call,        \* a call of a pure method: its name, its argument, its return value once made
    db,          \* the files, functions and dependencies tables, all projects' rows together
    analysis     \* job id -> the local variables of its run: discovery.files, storedFiles

vars == <<jobs, handlers, processing, activeJobs, drainPc, running, nextId, now, projects,
          held, disk, tables, history, tree, discovery, call, db, analysis>>

\* the file-level state of the analysis pipeline, and the state the queue never touches
fileVars == <<disk, tables, history>>
discoveryVars == <<tree, discovery>>
dbVars == <<db, analysis>>
beyond == <<held, fileVars, discoveryVars, call, dbVars>>

----------------------------------------------------------------------------
(* Bounds and input sets *)

MaxJobs == 3          \* addJob calls in a run of the queue
MaxFifoJobs == 4      \* addJob calls in a run that queues several jobs behind the ceiling
MaxAnalyzeJobs == 3   \* projects created in a run of the analysis pipeline
MaxSweepJobs == 3     \* addJob calls in a run with a clock and the periodic sweep
MaxTime == 2          \* the clock's last tick in such a run
MaxQueryJobs == 2     \* addJob calls in a run whose callers query the queue
MaxTreeFiles == 2     \* files fast-glob lists in the directory discoverFiles walks

maxConcurrentJobs == 2
batchSize == 100      \* files per insert in handleAnalyzeJob
fileBatchSize == 50   \* stored files per parse batch in handleAnalyzeJob
maxFileSize == 1048576 \* 1024 * 1024, the size above which discoverFiles skips a file

JobTypes == {"analyze_repository", "generate_embeddings"}

\* the ids addJob issues in a run of at most bound calls
Issued(bound) == 1..bound

\* ids callers pass: every id addJob can have issued, and one it never issues
Passed(bound) == 1..(bound + 1)

JobIds == Passed(MaxJobs)

\* values callers pass to updateJobProgress: below the range and above it (values inside
\* the range are passed by handleAnalyzeJob)
ProgressInputs == {-5, 250}

\* what a handler's promise can reject with: an Error with a message, or any other value
Thrown == {[isError |-> TRUE, message |-> ""],
           [isError |-> TRUE, message |-> "boom"],
           [isError |-> FALSE, message |-> "a string, not an Error"]}

\* what a step of handleAnalyzeJob (a storage call, the clone, the discovery) can throw
AnalyzeThrown == {[isError |-> TRUE, message |-> "boom"]}

\* how many files discovery can return: none, one batch, several batches
Discovered == {0, 1, 250}

\* how many rows the select of the project's stored files can return
Stored == {0, 1, 120}

\* olderThan arguments of clearCompletedJobs (milliseconds, the unit of the clock)
OlderThanInputs == {-1, 0, 1}

----------------------------------------------------------------------------
(* Helpers *)

Min(a, b) == IF a < b THEN a ELSE b
Max(a, b) == IF a > b THEN a ELSE b

\* every id any run issues
AllIds ==
    Issued(Max(Max(Max(MaxJobs, MaxSweepJobs), Max(MaxFifoJobs, MaxAnalyzeJobs)), MaxQueryJobs))

\* this.jobs.get(jobId): the position of the job in the Map, 0 when absent
IndexOf(js, jobId) ==
    IF \E k \in 1..Len(js) : js[k].id = jobId
    THEN CHOOSE k \in 1..Len(js) : js[k].id = jobId
    ELSE 0

\* a find that returns the last pending job instead of the first
FindPending_Last(js) ==
    IF \E k \in 1..Len(js) : js[k].status = "pending"
    THEN CHOOSE k \in 1..Len(js) :
            /\ js[k].status = "pending"
            /\ \A l \in (k + 1)..Len(js) : js[l].status # "pending"
    ELSE 0

Has(js, id) == IndexOf(js, id) # 0
JobOf(js, id) == js[IndexOf(js, id)]

\* Array.from(this.jobs.values()).find(job => job.status === 'pending'): 0 when none
FindPending(js) ==
    IF \E k \in 1..Len(js) : js[k].status = "pending"
    THEN CHOOSE k \in 1..Len(js) :
            /\ js[k].status = "pending"
            /\ \A l \in 1..(k - 1) : js[l].status # "pending"
    ELSE 0

\* JavaScript truthiness of an optional string argument: undefined and '' are falsy
Truthy(optStr) == optStr # <<>> /\ optStr[1] # ""

\* error instanceof Error ? error.message : 'Unknown error'
ErrorMessage(e) == IF e.isError THEN e.message ELSE "Unknown error"

----------------------------------------------------------------------------
(* JobQueueService *)

NewJob(id, type, projectId) ==
    [id |-> id, type |-> type, projectId |-> projectId, status |-> "pending", progress |-> 0,
     error |-> <<>>, completedAt |-> <<>>,
     calls |-> 0]   \* calls: how many times a handler was invoked for the job (history)

\* an update that stores the value as passed
updateJobProgress_NoClamp(js, jobId, progress) ==
    LET k == IndexOf(js, jobId) IN
    IF k = 0 THEN js
    ELSE [js EXCEPT ![k].progress = progress]

updateJobProgress(js, jobId, progress) ==
    LET k == IndexOf(js, jobId) IN
    IF k = 0 THEN js
    ELSE [js EXCEPT ![k].progress = Min(100, Max(0, progress))]

\* error: <<>> when completeJob is called without it, <<message>> otherwise
completeJob(js, jobId, error, t) ==
    LET k == IndexOf(js, jobId) IN
    IF k = 0 THEN js
    ELSE [js EXCEPT ![k] =
            [@ EXCEPT !.status = IF Truthy(error) THEN "failed" ELSE "completed",
                      !.progress = IF Truthy(error) THEN @ ELSE 100,
                      !.completedAt = <<t>>,
                      !.error = IF Truthy(error) THEN error ELSE @]]

\* a cancel that only refuses jobs already terminal, and so cancels a processing job
cancelJob_AllowsProcessing(js, jobId, t) ==
    LET k == IndexOf(js, jobId) IN
    IF k = 0 \/ js[k].status \in {"completed", "failed"}
    THEN [ret |-> FALSE, jobs |-> js]
    ELSE [ret |-> TRUE,
          jobs |-> [js EXCEPT ![k] = [@ EXCEPT !.status = "failed",
                                               !.error = <<"Cancelled by user">>,
                                               !.completedAt = <<t>>]]]

\* a cancel that reports success for every job it finds, cancelled or not
cancelJob_TrueWhenFound(js, jobId, t) ==
    LET k == IndexOf(js, jobId) IN
    IF k = 0
    THEN [ret |-> FALSE, jobs |-> js]
    ELSE IF js[k].status # "pending"
    THEN [ret |-> TRUE, jobs |-> js]
    ELSE [ret |-> TRUE,
          jobs |-> [js EXCEPT ![k] = [@ EXCEPT !.status = "failed",
                                               !.error = <<"Cancelled by user">>,
                                               !.completedAt = <<t>>]]]

\* cancelJob: the value returned and the job table afterwards
cancelJob(js, jobId, t) ==
    LET k == IndexOf(js, jobId) IN
    IF k = 0 \/ js[k].status # "pending"
    THEN [ret |-> FALSE, jobs |-> js]
    ELSE [ret |-> TRUE,
          jobs |-> [js EXCEPT ![k] = [@ EXCEPT !.status = "failed",
                                               !.error = <<"Cancelled by user">>,
                                               !.completedAt = <<t>>]]]

\* a sweep that ignores the retention window
ClearKeeps_NoAge(job, olderThan, t) ==
    ~ ( /\ job.status \in {"completed", "failed"}
        /\ job.completedAt # <<>> )

\* clearCompletedJobs: the jobs kept, in Map order
ClearKeeps(job, olderThan, t) ==
    ~ ( /\ job.status \in {"completed", "failed"}
        /\ job.completedAt # <<>>
        /\ t - job.completedAt[1] > olderThan )

clearCompletedJobs(js, olderThan, t) ==
    SelectSeq(js, LAMBDA job : ClearKeeps(job, olderThan, t))

\* clearCompletedJobs: the value returned, `cleared`, counted up at every delete
Cleared(js, olderThan, t) ==
    Cardinality({k \in 1..Len(js) : ~ClearKeeps(js[k], olderThan, t)})

AtEventLoop == drainPc # "running"

NoError == [isError |-> FALSE, message |-> ""]

\* the position of a handler call: pc, and for handleAnalyzeJob its loop index i, the
\* number n of discovered files (while they are persisted), the number m of stored files
\* (while they are parsed) and the error it caught or rejected with
Pos(pc, i, n, m) == [pc |-> pc, i |-> i, n |-> n, m |-> m, err |-> NoError]
NotRunning == Pos("none", 0, 0, 0)

NoProject == [status |-> "none", errorMessage |-> <<>>]

\* no query made yet: no reference held, nothing seen
NoQuery == [refs |-> <<>>, seen |-> <<>>]

\* a project no run of handleAnalyzeJob has looked at: n files found by discovery, the
\* files whose read fails, the files whose parse or fact insert throws
NoDisk == [n |-> 0, unreadable |-> {}, unparsable |-> {}]
NoRows == [files |-> <<>>, facts |-> {}]
NoHistory == [batches |-> <<>>, visited |-> <<>>]

\* discoverFiles not called
NoDiscovery ==
    [pc |-> "none", i |-> 0, fileInfos |-> <<>>, totalSize |-> 0,
     languageBreakdown |-> [language \in {} |-> 0]]

\* the tables before any insert; the locals of a run before discovery
NoTables == [files |-> <<>>, functions |-> <<>>, dependencies |-> <<>>]
NoLocals == [files |-> <<>>, storedFiles |-> <<>>]

\* no pure method called
NoCall == [fn |-> "none", arg |-> <<>>, result |-> <<>>]

\* the state of everything but the queue before any query, analysis or discovery
InitBeyond ==
    /\ held = NoQuery
    /\ disk = [id \in AllIds |-> NoDisk]
    /\ tables = [id \in AllIds |-> NoRows]
    /\ history = [id \in AllIds |-> NoHistory]
    /\ tree = <<>>
    /\ discovery = NoDiscovery
    /\ call = NoCall
    /\ db = NoTables
    /\ analysis = [id \in AllIds |-> NoLocals]

\* the state after `new JobQueueService()`
Init ==
    /\ jobs = <<>>
    /\ handlers = [t \in JobTypes |-> "none"]
    /\ processing = FALSE
    /\ activeJobs = 0
    /\ drainPc = "idle"
    /\ running = [id \in AllIds |-> NotRunning]
    /\ nextId = 1
    /\ now = 0
    /\ projects = [id \in AllIds |-> NoProject]
    /\ InitBeyond

\* registerHandler(type, handler) with a handler about which nothing is known
RegisterHandler(type) ==
    /\ AtEventLoop
    /\ handlers' = [handlers EXCEPT ![type] = "generic"]
    /\ UNCHANGED <<jobs, processing, activeJobs, drainPc, running, nextId, now, projects, beyond>>

\* an addJob whose processQueue call enters the loop whatever the flag says
addJob_AlwaysDrains(type, projectId, bound) ==
    /\ AtEventLoop
    /\ nextId <= bound
    /\ jobs' = Append(jobs, NewJob(nextId, type, projectId))
    /\ nextId' = nextId + 1
    /\ processing' = TRUE
    /\ drainPc' = "running"
    /\ UNCHANGED <<handlers, activeJobs, running, now>>

\* addJob(job): stores the job and, unless a drain loop is active, calls processQueue,
\* which sets the flag and enters its loop. bound: the number of jobs a run adds
addJob(type, projectId, bound) ==
    /\ AtEventLoop
    /\ nextId <= bound
    /\ jobs' = Append(jobs, NewJob(nextId, type, projectId))
    /\ nextId' = nextId + 1
    /\ IF ~processing
       THEN processing' = TRUE /\ drainPc' = "running"
       ELSE UNCHANGED <<processing, drainPc>>
    /\ UNCHANGED <<handlers, activeJobs, running, now>>

\* a caller adds a job for a project of its own
AddJob(type) == addJob(type, nextId, MaxJobs) /\ UNCHANGED <<projects, beyond>>

\* the handler call's position when processJob starts awaiting it
HandlerStart(h) ==
    IF h = "handleAnalyzeJob" THEN Pos("status", 0, 0, 0) ELSE Pos("generic", 0, 0, 0)

\* a processJob whose handler lookup throws outside the try block: the slot taken by
\* activeJobs++ is never given back
ProcessJobStart_LeaksSlot(k) ==
    LET job == jobs[k]
        h == handlers[job.type]
    IN  IF h = "none"
        THEN /\ jobs' = completeJob(jobs, job.id,
                                    <<"No handler registered for job type: " \o job.type>>, now)
             /\ activeJobs' = activeJobs + 1
             /\ UNCHANGED running
        ELSE /\ jobs' = [jobs EXCEPT ![k] = [@ EXCEPT !.status = "processing",
                                                      !.calls = @ + 1]]
             /\ activeJobs' = activeJobs + 1
             /\ running' = [running EXCEPT ![job.id] = HandlerStart(h)]

\* a processJob that never marks the job 'processing'
ProcessJobStart_NoStatus(k) ==
    LET job == jobs[k]
        h == handlers[job.type]
    IN  IF h = "none"
        THEN /\ jobs' = completeJob(jobs, job.id,
                                    <<"No handler registered for job type: " \o job.type>>, now)
             /\ activeJobs' = (activeJobs + 1) - 1
             /\ UNCHANGED running
        ELSE /\ jobs' = [jobs EXCEPT ![k] = [@ EXCEPT !.calls = @ + 1]]
             /\ activeJobs' = activeJobs + 1
             /\ running' = [running EXCEPT ![job.id] = HandlerStart(h)]

\* processJob(job) up to its `await handler(job)`: with no handler registered the throw
\* is caught and the job completed with the error before the call returns
ProcessJobStart(k) ==
    LET job == jobs[k]
        h == handlers[job.type]
    IN  IF h = "none"
        THEN /\ jobs' = completeJob(jobs, job.id,
                                    <<"No handler registered for job type: " \o job.type>>, now)
             /\ activeJobs' = (activeJobs + 1) - 1
             /\ UNCHANGED running
        ELSE /\ jobs' = [jobs EXCEPT ![k] = [@ EXCEPT !.status = "processing",
                                                      !.calls = @ + 1]]
             /\ activeJobs' = activeJobs + 1
             /\ running' = [running EXCEPT ![job.id] = HandlerStart(h)]

\* a drain loop without the wait for a free slot
ProcessQueueStep_NoCeiling ==
    /\ drainPc = "running"
    /\ IF FindPending(jobs) = 0
       THEN /\ processing' = FALSE
            /\ drainPc' = "idle"
            /\ UNCHANGED <<jobs, activeJobs, running>>
       ELSE /\ ProcessJobStart(FindPending(jobs))
            /\ UNCHANGED <<processing, drainPc>>
    /\ UNCHANGED <<handlers, nextId, now, projects, beyond>>

\* a drain loop that leaves this.processing set when it ends
ProcessQueueStep_KeepsFlag ==
    /\ drainPc = "running"
    /\ IF activeJobs >= maxConcurrentJobs
       THEN /\ drainPc' = "waiting"
            /\ UNCHANGED <<jobs, processing, activeJobs, running>>
       ELSE IF FindPending(jobs) = 0
            THEN /\ drainPc' = "idle"
                 /\ UNCHANGED <<jobs, processing, activeJobs, running>>
            ELSE /\ ProcessJobStart(FindPending(jobs))
                 /\ UNCHANGED <<processing, drainPc>>
    /\ UNCHANGED <<handlers, nextId, now, projects, beyond>>

\* one iteration of processQueue's `while (true)` loop
ProcessQueueStep ==
    /\ drainPc = "running"
    /\ IF activeJobs >= maxConcurrentJobs
       THEN \* await new Promise(resolve => setTimeout(resolve, 100))
            /\ drainPc' = "waiting"
            /\ UNCHANGED <<jobs, processing, activeJobs, running>>
       ELSE IF FindPending(jobs) = 0
            THEN \* break; this.processing = false
                 /\ processing' = FALSE
                 /\ drainPc' = "idle"
                 /\ UNCHANGED <<jobs, activeJobs, running>>
            ELSE /\ ProcessJobStart(FindPending(jobs))
                 /\ UNCHANGED <<processing, drainPc>>
    /\ UNCHANGED <<handlers, nextId, now, projects, beyond>>

\* the setTimeout of the inner wait loop fires
TimerFires ==
    /\ drainPc = "waiting"
    /\ drainPc' = "running"
    /\ UNCHANGED <<jobs, handlers, processing, activeJobs, running, nextId, now, projects, beyond>>

\* a processJob without its finally block
ProcessJobSettle_KeepsSlot(id, outcome) ==
    /\ jobs' = IF outcome = <<>>
               THEN completeJob(jobs, id, <<>>, now)
               ELSE completeJob(jobs, id, <<ErrorMessage(outcome[1])>>, now)
    /\ activeJobs' = activeJobs
    /\ running' = [running EXCEPT ![id] = NotRunning]

\* the rest of processJob once the awaited handler promise settles:
\* outcome <<>> (resolved) or <<e>> (rejected with e)
ProcessJobSettle(id, outcome) ==
    /\ jobs' = IF outcome = <<>>
               THEN completeJob(jobs, id, <<>>, now)
               ELSE completeJob(jobs, id, <<ErrorMessage(outcome[1])>>, now)
    /\ activeJobs' = activeJobs - 1
    /\ running' = [running EXCEPT ![id] = NotRunning]

\* a handler about which nothing is known resolves
HandlerResolves(id) ==
    /\ AtEventLoop
    /\ running[id].pc = "generic"
    /\ ProcessJobSettle(id, <<>>)
    /\ UNCHANGED <<handlers, processing, drainPc, nextId, now, projects, beyond>>

\* a handler about which nothing is known rejects with e
HandlerRejects(id, e) ==
    /\ AtEventLoop
    /\ running[id].pc = "generic"
    /\ ProcessJobSettle(id, <<e>>)
    /\ UNCHANGED <<handlers, processing, drainPc, nextId, now, projects, beyond>>

HandlerSettles(id) ==
    \/ HandlerResolves(id)
    \/ \E e \in Thrown : HandlerRejects(id, e)

UpdateJobProgress(id, value) ==
    /\ AtEventLoop
    /\ jobs' = updateJobProgress(jobs, id, value)
    /\ UNCHANGED <<handlers, processing, activeJobs, drainPc, running, nextId, now, projects, beyond>>

CancelJob(id) ==
    /\ AtEventLoop
    /\ jobs' = cancelJob(jobs, id, now).jobs
    /\ UNCHANGED <<handlers, processing, activeJobs, drainPc, running, nextId, now, projects, beyond>>

ClearCompletedJobs(olderThan) ==
    /\ AtEventLoop
    /\ jobs' = clearCompletedJobs(jobs, olderThan, now)
    /\ UNCHANGED <<handlers, processing, activeJobs, drainPc, running, nextId, now, projects, beyond>>

\* getJob(jobId): this.jobs.get(jobId), the Job object of the Map itself (a reference,
\* here its id) or undefined (no reference)
getJob(js, jobId) == IF Has(js, jobId) THEN <<jobId>> ELSE <<>>

\* getProjectJobs(projectId): a new array holding, in Map order, the Job objects of the
\* Map that belong to the project
getProjectJobs(js, projectId) ==
    LET own == SelectSeq(js, LAMBDA job : job.projectId = projectId)
    IN  [k \in 1..Len(own) |-> own[k].id]

\* what a caller reads through the references it holds: the fields of the objects now
Shows(js, refs) ==
    [k \in 1..Len(refs) |-> [status |-> JobOf(js, refs[k]).status,
                             progress |-> JobOf(js, refs[k]).progress]]

\* a caller keeps what a query returned, and what it showed when it was returned
Query(refs) ==
    /\ AtEventLoop
    /\ held' = [refs |-> refs, seen |-> Shows(jobs, refs)]
    /\ UNCHANGED <<jobs, handlers, processing, activeJobs, drainPc, running, nextId, now,
                   projects, fileVars, discoveryVars, call,
                   dbVars>>

GetJob(id) == Query(getJob(jobs, id))

GetProjectJobs(projectId) == Query(getProjectJobs(jobs, projectId))

\* time passes between two callbacks
Tick ==
    /\ AtEventLoop
    /\ now < MaxTime
    /\ now' = now + 1
    /\ UNCHANGED <<jobs, handlers, processing, activeJobs, drainPc, running, nextId, projects,
                   beyond>>

----------------------------------------------------------------------------
(* RepositoryService *)

\* an entry point that queues a job for a project that already has one
CreateProject_SameProject ==
    /\ addJob("analyze_repository", 1, MaxAnalyzeJobs)
    /\ projects' = [projects EXCEPT ![1] = [status |-> "pending", errorMessage |-> <<>>]]
    /\ UNCHANGED beyond

\* createGitHubProject / createUploadProject: inserts the project row with status
\* 'pending' and adds the analysis job for it
CreateProject ==
    /\ addJob("analyze_repository", nextId, MaxAnalyzeJobs)
    /\ projects' = [projects EXCEPT ![nextId] = [status |-> "pending", errorMessage |-> <<>>]]
    /\ UNCHANGED beyond

\* a progress formula that restarts the parse stage at the persist stage's base
ParseProgress_FromFifty(i, m) == 50 + (i * 10) \div m

\* 50 + Math.floor((i / discovery.files.length) * 40)
PersistProgress(i, n) == 50 + (i * 40) \div n

\* 90 + Math.floor((i / storedFiles.length) * 10)
ParseProgress(i, m) == 90 + (i * 10) \div m

\* handleAnalyzeJob for job id is suspended at the await named pc
Awaits(id, pc) == AtEventLoop /\ running[id].pc = pc

ProjectOf(id) == JobOf(jobs, id).projectId

\* handleAnalyzeJob moves on to the await named pc with loop index i
Goto(id, pc, i, n, m) ==
    running' = [running EXCEPT ![id] = [@ EXCEPT !.pc = pc, !.i = i, !.n = n, !.m = m]]

\* the first status write resolved: progress 10, then the clone or the extraction starts
StatusWritten(id) ==
    /\ Awaits(id, "status")
    /\ projects' = [projects EXCEPT ![ProjectOf(id)].status = "processing"]
    /\ jobs' = updateJobProgress(jobs, id, 10)
    /\ Goto(id, "materialize", 0, 0, 0)
    /\ UNCHANGED <<handlers, processing, activeJobs, drainPc, nextId, now, beyond>>

\* the repository is on disk: progress 30, then discovery starts
Materialized(id) ==
    /\ Awaits(id, "materialize")
    /\ jobs' = updateJobProgress(jobs, id, 30)
    /\ Goto(id, "discover", 0, 0, 0)
    /\ UNCHANGED <<handlers, processing, activeJobs, drainPc, nextId, now, projects, beyond>>

\* discovery returned n files: progress 50, then the first batch is read and inserted,
\* or with no file the stored files are selected
FilesDiscovered(id, n) ==
    /\ Awaits(id, "discover")
    /\ jobs' = updateJobProgress(jobs, id, 50)
    /\ IF 0 < n THEN Goto(id, "persist", 0, n, 0) ELSE Goto(id, "select", 0, 0, 0)
    /\ UNCHANGED <<handlers, processing, activeJobs, drainPc, nextId, now, projects, beyond>>

\* the batch starting at file i was read and inserted: progress, then the next batch or
\* the select
BatchPersisted(id) ==
    /\ Awaits(id, "persist")
    /\ LET i == running[id].i
           n == running[id].n
       IN  /\ jobs' = updateJobProgress(jobs, id, PersistProgress(i, n))
           /\ IF i + batchSize < n
              THEN Goto(id, "persist", i + batchSize, n, 0)
              ELSE Goto(id, "select", 0, 0, 0)
    /\ UNCHANGED <<handlers, processing, activeJobs, drainPc, nextId, now, projects, beyond>>

\* the select returned m stored files: the first parse batch, or with no file the final
\* write
FilesSelected(id, m) ==
    /\ Awaits(id, "select")
    /\ IF 0 < m
       THEN Goto(id, "parse", 0, 0, m)
       ELSE Goto(id, "finalize", 0, 0, 0)
    /\ UNCHANGED <<jobs, handlers, processing, activeJobs, drainPc, nextId, now, projects, beyond>>

\* the parse batch starting at stored file i is done (a file's failure is caught inside
\* the batch): progress, then the next batch or the final write
BatchParsed(id) ==
    /\ Awaits(id, "parse")
    /\ LET i == running[id].i
           m == running[id].m
       IN  /\ jobs' = updateJobProgress(jobs, id, ParseProgress(i, m))
           /\ IF i + fileBatchSize < m
              THEN Goto(id, "parse", i + fileBatchSize, 0, m)
              ELSE Goto(id, "finalize", 0, 0, 0)
    /\ UNCHANGED <<handlers, processing, activeJobs, drainPc, nextId, now, projects, beyond>>

\* the final write resolved: status 'completed', progress 100, the handler returns
Finalized(id) ==
    /\ Awaits(id, "finalize")
    /\ projects' = [projects EXCEPT ![ProjectOf(id)].status = "completed"]
    /\ jobs' = updateJobProgress(jobs, id, 100)
    /\ Goto(id, "resolved", 0, 0, 0)
    /\ UNCHANGED <<handlers, processing, activeJobs, drainPc, nextId, now, beyond>>

\* an awaited call outside the per-file try blocks rejects with e: the catch block
\* starts its status write
StepThrows(id, e) ==
    /\ AtEventLoop
    /\ running[id].pc \in {"status", "materialize", "discover", "persist", "select", "finalize"}
    /\ running' = [running EXCEPT ![id] = [Pos("catch", 0, 0, 0) EXCEPT !.err = e]]
    /\ UNCHANGED <<jobs, handlers, processing, activeJobs, drainPc, nextId, now, projects, beyond>>

\* the catch block's write (taken to succeed) resolved: status 'failed' with the
\* message, the error rethrown
CatchWritten(id) ==
    /\ Awaits(id, "catch")
    /\ projects' = [projects EXCEPT ![ProjectOf(id)] =
                        [status |-> "failed",
                         errorMessage |-> <<ErrorMessage(running[id].err)>>]]
    /\ running' = [running EXCEPT ![id].pc = "rejected"]
    /\ UNCHANGED <<jobs, handlers, processing, activeJobs, drainPc, nextId, now, beyond>>

\* processJob resumes after handleAnalyzeJob's promise settled
AnalyzeSettles(id) ==
    /\ AtEventLoop
    /\ running[id].pc \in {"resolved", "rejected"}
    /\ ProcessJobSettle(id, IF running[id].pc = "resolved" THEN <<>> ELSE <<running[id].err>>)
    /\ UNCHANGED <<handlers, processing, drainPc, nextId, now, projects, beyond>>

\* the state once the backend's modules are loaded: RepositoryService's constructor has
\* registered handleAnalyzeJob
InitAnalyze ==
    /\ jobs = <<>>
    /\ handlers = [t \in JobTypes |->
                      IF t = "analyze_repository" THEN "handleAnalyzeJob" ELSE "none"]
    /\ processing = FALSE
    /\ activeJobs = 0
    /\ drainPc = "idle"
    /\ running = [id \in AllIds |-> NotRunning]
    /\ nextId = 1
    /\ now = 0
    /\ projects = [id \in AllIds |-> NoProject]
    /\ InitBeyond

\* The analysis pipeline: projects are created, their jobs run handleAnalyzeJob
NextAnalyze ==
    \/ CreateProject
    \/ ProcessQueueStep
    \/ TimerFires
    \/ \E id \in Issued(MaxAnalyzeJobs) :
          \/ StatusWritten(id)
          \/ Materialized(id)
          \/ \E n \in Discovered : FilesDiscovered(id, n)
          \/ BatchPersisted(id)
          \/ \E m \in Stored : FilesSelected(id, m)
          \/ BatchParsed(id)
          \/ Finalized(id)
          \/ \E e \in AnalyzeThrown : StepThrows(id, e)
          \/ CatchWritten(id)
          \/ AnalyzeSettles(id)

SpecAnalyze == InitAnalyze /\ [][NextAnalyze]_vars

\* The analysis pipeline with everything a step can reject with, and callers that cancel
NextRepo ==
    \/ CreateProject
    \/ ProcessQueueStep
    \/ TimerFires
    \/ \E id \in Passed(MaxAnalyzeJobs) : CancelJob(id)
    \/ \E id \in Issued(MaxAnalyzeJobs) :
          \/ StatusWritten(id)
          \/ Materialized(id)
          \/ \E n \in Discovered : FilesDiscovered(id, n)
          \/ BatchPersisted(id)
          \/ \E m \in Stored : FilesSelected(id, m)
          \/ BatchParsed(id)
          \/ Finalized(id)
          \/ \E e \in Thrown : StepThrows(id, e)
          \/ CatchWritten(id)
          \/ AnalyzeSettles(id)

SpecRepo == InitAnalyze /\ [][NextRepo]_vars

----------------------------------------------------------------------------
(* RepositoryService.handleAnalyzeJob, file by file *)

\* what a run can find on disk: the number n of files discovery returns (files are
\* numbered 1..n in the order of discovery.files), the files whose content read fails,
\* and the files for which parsing or the insert of the facts throws
Disks ==
    {[n |-> 0, unreadable |-> {}, unparsable |-> {}],
     [n |-> 1, unreadable |-> {}, unparsable |-> {1}],
     [n |-> 250, unreadable |-> {}, unparsable |-> {}],
     [n |-> 250, unreadable |-> {100, 101, 250}, unparsable |-> {1, 51, 52, 249}]}

\* a slice that takes one file more than the step of the loop
Batch_Overlapping(i, n) == [lo |-> i + 1, hi |-> Min(i + batchSize + 1, n)]

\* discovery.files.slice(i, i + batchSize) of n files: the files lo..hi
Batch(i, n) == [lo |-> i + 1, hi |-> Min(i + batchSize, n)]

\* the records of a batch that survive `fileRecords.filter((r) => r !== null)`: a file
\* whose read throws gives null inside its own try block; Promise.all keeps the order
ValidRecords(batch, unreadable) ==
    SelectSeq([k \in 1..(batch.hi - batch.lo + 1) |-> batch.lo + k - 1],
              LAMBDA file : file \notin unreadable)

\* a parse loop whose try block encloses the whole batch: the first failure ends the batch
ParseFiles_StopsAtFailure(rows, unparsable) ==
    LET bad == {k \in 1..Len(rows) : rows[k] \in unparsable}
        last == IF bad = {} THEN Len(rows) ELSE CHOOSE k \in bad : \A l \in bad : k <= l
    IN  [visited |-> SubSeq(rows, 1, last),
         facts |-> {rows[k] : k \in {l \in 1..last : rows[l] \notin unparsable}}]

\* `for (const file of batch) { try { ... } catch { logger.warn } }`: every file of the
\* batch is visited; the facts of a file are stored unless its try block threw
ParseFiles(rows, unparsable) ==
    [visited |-> rows,
     facts |-> {rows[k] : k \in {l \in 1..Len(rows) : rows[l] \notin unparsable}}]

\* discovery returned the files of d: progress 50, then the first batch or the select
DiscoverFiles(id, d) ==
    /\ Awaits(id, "discover")
    /\ disk' = [disk EXCEPT ![ProjectOf(id)] = d]
    /\ jobs' = updateJobProgress(jobs, id, 50)
    /\ IF 0 < d.n THEN Goto(id, "persist", 0, d.n, 0) ELSE Goto(id, "select", 0, 0, 0)
    /\ UNCHANGED <<handlers, processing, activeJobs, drainPc, nextId, now, projects,
                   held, call, dbVars, tables, history, discoveryVars>>

\* the batch starting at file i was read and its surviving records inserted
PersistBatch(id) ==
    /\ Awaits(id, "persist")
    /\ LET i == running[id].i
           n == running[id].n
           p == ProjectOf(id)
           batch == Batch(i, n)
       IN  /\ tables' = [tables EXCEPT
                  ![p].files = @ \o ValidRecords(batch, disk[p].unreadable)]
           /\ history' = [history EXCEPT ![p].batches = Append(@, batch)]
           /\ jobs' = updateJobProgress(jobs, id, PersistProgress(i, n))
           /\ IF i + batchSize < n
              THEN Goto(id, "persist", i + batchSize, n, 0)
              ELSE Goto(id, "select", 0, 0, 0)
    /\ UNCHANGED <<handlers, processing, activeJobs, drainPc, nextId, now, projects,
                   held, call, dbVars, disk, discoveryVars>>

\* the select returned the project's rows of the files table
SelectFiles(id) ==
    /\ Awaits(id, "select")
    /\ LET m == Len(tables[ProjectOf(id)].files)
       IN  IF 0 < m THEN Goto(id, "parse", 0, 0, m) ELSE Goto(id, "finalize", 0, 0, 0)
    /\ UNCHANGED <<jobs, handlers, processing, activeJobs, drainPc, nextId, now, projects,
                   beyond>>

\* a parse batch that lets a file's failure reach the handler's catch block
ParseBatch_Escalates(id) ==
    /\ Awaits(id, "parse")
    /\ LET i == running[id].i
           m == running[id].m
           p == ProjectOf(id)
           rows == SubSeq(tables[p].files, i + 1, Min(i + fileBatchSize, m))
           done == ParseFiles_StopsAtFailure(rows, disk[p].unparsable)
       IN  /\ tables' = [tables EXCEPT ![p].facts = @ \cup done.facts]
           /\ history' = [history EXCEPT ![p].visited = @ \o done.visited]
           /\ IF done.visited # rows \/ done.facts # {done.visited[k] : k \in 1..Len(rows)}
              THEN /\ running' = [running EXCEPT ![id] =
                          [Pos("rejected", 0, 0, 0) EXCEPT
                              !.err = [isError |-> TRUE, message |-> "boom"]]]
                   /\ UNCHANGED jobs
              ELSE /\ jobs' = updateJobProgress(jobs, id, ParseProgress(i, m))
                   /\ IF i + fileBatchSize < m
                      THEN Goto(id, "parse", i + fileBatchSize, 0, m)
                      ELSE Goto(id, "finalize", 0, 0, 0)
    /\ UNCHANGED <<handlers, processing, activeJobs, drainPc, nextId, now, projects,
                   held, call, dbVars, disk, discoveryVars>>

\* the parse batch starting at stored file i is done
ParseBatch(id) ==
    /\ Awaits(id, "parse")
    /\ LET i == running[id].i
           m == running[id].m
           p == ProjectOf(id)
           rows == SubSeq(tables[p].files, i + 1, Min(i + fileBatchSize, m))
           done == ParseFiles(rows, disk[p].unparsable)
       IN  /\ tables' = [tables EXCEPT ![p].facts = @ \cup done.facts]
           /\ history' = [history EXCEPT ![p].visited = @ \o done.visited]
           /\ jobs' = updateJobProgress(jobs, id, ParseProgress(i, m))
           /\ IF i + fileBatchSize < m
              THEN Goto(id, "parse", i + fileBatchSize, 0, m)
              ELSE Goto(id, "finalize", 0, 0, 0)
    /\ UNCHANGED <<handlers, processing, activeJobs, drainPc, nextId, now, projects,
                   held, call, dbVars, disk, discoveryVars>>

\* one step of the run of handleAnalyzeJob for job id, in which only single files fail;
\* disks: what discovery can find
AnalyzeStepOn(id, disks) ==
    \/ StatusWritten(id)
    \/ Materialized(id)
    \/ \E d \in disks : DiscoverFiles(id, d)
    \/ PersistBatch(id)
    \/ SelectFiles(id)
    \/ ParseBatch(id)
    \/ Finalized(id)
    \/ AnalyzeSettles(id)

AnalyzeStep(id) == AnalyzeStepOn(id, Disks)

\* The analysis pipeline file by file, on every kind of repository
NextFiles ==
    \/ CreateProject
    \/ ProcessQueueStep
    \/ TimerFires
    \/ \E id \in Issued(MaxAnalyzeJobs) : AnalyzeStep(id)

SpecFiles == InitAnalyze /\ [][NextFiles]_vars

\* the repositories in which the parse of some file fails
FailingDisks == {d \in Disks : d.unparsable # {}}

SomeAnalyzeStep == \E id \in Issued(MaxAnalyzeJobs) : AnalyzeStepOn(id, FailingDisks)

NextFailingFiles ==
    \/ CreateProject
    \/ ProcessQueueStep
    \/ TimerFires
    \/ SomeAnalyzeStep

\* The analysis pipeline on repositories with failing files, under the scheduling the
\* runtime guarantees: synchronous code runs on, a timer that was set fires, and an
\* awaited call of a run settles, its continuation running between two polls of the
\* drain loop, so that as long as some run waits for a call, some run goes on
SpecFailingFiles ==
    /\ InitAnalyze
    /\ [][NextFailingFiles]_vars
    /\ WF_vars(ProcessQueueStep)
    /\ WF_vars(TimerFires)
    /\ SF_vars(SomeAnalyzeStep)

----------------------------------------------------------------------------
(* FileDiscoveryService.discoverFiles *)

\* what path.extname gives for the listed files: mapped extensions in lower and in upper
\* case, an unmapped one, and none
ExtNames == {".ts", ".PY", ".xyz", ""}

\* String.prototype.toLowerCase on those
ToLowerCase(ext) == IF ext = ".PY" THEN ".py" ELSE ext

\* the entries of languageMap the listed files can hit
languageMap == [ext \in {".ts", ".py"} |-> IF ext = ".ts" THEN "typescript" ELSE "python"]

\* this.languageMap[extension] || 'unknown'
getLanguage(extension) ==
    IF extension \in DOMAIN languageMap THEN languageMap[extension] ELSE "unknown"

\* what stats.size can be: empty, smallest, the limit, one byte above it
Sizes == {0, 1, maxFileSize, maxFileSize + 1}

\* a listed file: what path.extname and fs.stat give for it
ListedFiles == [extname : ExtNames, size : Sizes, statFails : BOOLEAN]

\* the listings of at most MaxTreeFiles files
Trees == UNION {[1..len -> ListedFiles] : len \in 0..MaxTreeFiles}

\* a loop body that lets empty files through
Keeps_Empty(file) ==
    /\ ~file.statFails
    /\ ~(file.size > maxFileSize)
    /\ getLanguage(ToLowerCase(file.extname)) # "unknown"

\* the body of the loop reaches fileInfos.push: fs.stat did not throw and none of the
\* three `continue` was taken
Keeps(file) ==
    /\ ~file.statFails
    /\ ~(file.size > maxFileSize)
    /\ ~(file.size = 0)
    /\ getLanguage(ToLowerCase(file.extname)) # "unknown"

\* the FileInfo pushed for the file listed at position k
FileInfoOf(k, file) ==
    [relativePath |-> k,
     language |-> getLanguage(ToLowerCase(file.extname)),
     size |-> file.size,
     extension |-> ToLowerCase(file.extname)]

\* languageBreakdown[language] = (languageBreakdown[language] || 0) + 1
Counted(breakdown, language) ==
    [l \in DOMAIN breakdown \cup {language} |->
        IF l = language
        THEN (IF l \in DOMAIN breakdown THEN breakdown[l] ELSE 0) + 1
        ELSE breakdown[l]]

\* the state when discoverFiles is called on a directory
InitDiscover ==
    /\ jobs = <<>>
    /\ handlers = [t \in JobTypes |->
                      IF t = "analyze_repository" THEN "handleAnalyzeJob" ELSE "none"]
    /\ processing = FALSE
    /\ activeJobs = 0
    /\ drainPc = "idle"
    /\ running = [id \in AllIds |-> NotRunning]
    /\ nextId = 1
    /\ now = 0
    /\ projects = [id \in AllIds |-> NoProject]
    /\ held = NoQuery
    /\ disk = [id \in AllIds |-> NoDisk]
    /\ tables = [id \in AllIds |-> NoRows]
    /\ history = [id \in AllIds |-> NoHistory]
    /\ tree \in Trees
    /\ discovery = NoDiscovery
    /\ call = NoCall
    /\ db = NoTables
    /\ analysis = [id \in AllIds |-> NoLocals]

\* fast-glob returned the listing: the loop starts at its first file
FilesListed ==
    /\ discovery.pc = "none"
    /\ discovery' = [discovery EXCEPT !.pc = "stat", !.i = 1]
    /\ UNCHANGED <<jobs, handlers, processing, activeJobs, drainPc, running, nextId, now,
                   projects, held, call, dbVars, fileVars, tree>>

\* fast-glob threw: the outer catch rethrows 'Failed to discover files: ...'
ListingThrows ==
    /\ discovery.pc = "none"
    /\ discovery' = [discovery EXCEPT !.pc = "failed"]
    /\ UNCHANGED <<jobs, handlers, processing, activeJobs, drainPc, running, nextId, now,
                   projects, held, call, dbVars, fileVars, tree>>

\* one iteration of `for (const file of files)`: the stat, the three tests, the push
StatFile ==
    /\ discovery.pc = "stat"
    /\ discovery.i <= Len(tree)
    /\ LET file == tree[discovery.i]
           info == FileInfoOf(discovery.i, file)
       IN  discovery' =
              IF Keeps(file)
              THEN [discovery EXCEPT
                       !.i = @ + 1,
                       !.fileInfos = Append(@, info),
                       !.totalSize = @ + file.size,
                       !.languageBreakdown = Counted(@, info.language)]
              ELSE [discovery EXCEPT !.i = @ + 1]
    /\ UNCHANGED <<jobs, handlers, processing, activeJobs, drainPc, running, nextId, now,
                   projects, held, call, dbVars, fileVars, tree>>

\* the loop is over: discoverFiles returns { files: fileInfos, stats }
DiscoveryReturns ==
    /\ discovery.pc = "stat"
    /\ discovery.i > Len(tree)
    /\ discovery' = [discovery EXCEPT !.pc = "done"]
    /\ UNCHANGED <<jobs, handlers, processing, activeJobs, drainPc, running, nextId, now,
                   projects, held, call, dbVars, fileVars, tree>>

NextDiscover ==
    \/ FilesListed
    \/ ListingThrows
    \/ StatFile
    \/ DiscoveryReturns

SpecDiscover == InitDiscover /\ [][NextDiscover]_vars

\* The queue under every interleaving of its callers, its drain loop and its handlers
Next ==
    \/ \E type \in JobTypes : RegisterHandler(type)
    \/ \E type \in JobTypes : AddJob(type)
    \/ ProcessQueueStep
    \/ TimerFires
    \/ \E id \in 1..MaxJobs : HandlerSettles(id)
    \/ \E id \in JobIds, value \in ProgressInputs : UpdateJobProgress(id, value)
    \/ \E id \in JobIds : CancelJob(id)
    \/ \E olderThan \in OlderThanInputs : ClearCompletedJobs(olderThan)

Spec == Init /\ [][Next]_vars

\* The calls and events that decide whether a job terminates, under the scheduling the
\* runtime guarantees: synchronous code runs on, a timer that was set fires, and (the
\* claim's premise) every handler call settles. A settled promise's continuation is
\* queued and runs as soon as the call stack is empty, which it is again and again
\* between two polls of the drain loop (100 ms apart): strong fairness.
NextLive ==
    \/ \E type \in JobTypes : RegisterHandler(type)
    \/ \E type \in JobTypes : AddJob(type)
    \/ ProcessQueueStep
    \/ TimerFires
    \/ \E id \in 1..MaxJobs : HandlerSettles(id)
    \/ \E id \in JobIds : CancelJob(id)
    \/ \E olderThan \in OlderThanInputs : ClearCompletedJobs(olderThan)

\* The calls and events that decide the order of dispatch, with enough jobs for several
\* to be pending at once behind the ceiling
AddFifoJob(type) == addJob(type, nextId, MaxFifoJobs) /\ UNCHANGED <<projects, beyond>>

NextFifo ==
    \/ \E type \in JobTypes : RegisterHandler(type)
    \/ \E type \in JobTypes : AddFifoJob(type)
    \/ ProcessQueueStep
    \/ TimerFires
    \/ \E id \in Issued(MaxFifoJobs) : HandlerSettles(id)
    \/ \E id \in Passed(MaxFifoJobs) : CancelJob(id)
    \/ \E olderThan \in OlderThanInputs : ClearCompletedJobs(olderThan)

SpecFifo == Init /\ [][NextFifo]_vars

\* The queue with a clock: jobs of one type end at different times and the sweep runs
\* between them
AddSweepJob(type) == addJob(type, nextId, MaxSweepJobs) /\ UNCHANGED <<projects, beyond>>

NextSweep ==
    \/ RegisterHandler("generate_embeddings")
    \/ AddSweepJob("generate_embeddings")
    \/ ProcessQueueStep
    \/ TimerFires
    \/ \E id \in Issued(MaxSweepJobs) : HandlerSettles(id)
    \/ \E id \in Passed(MaxSweepJobs) : CancelJob(id)
    \/ Tick
    \/ \E olderThan \in OlderThanInputs : ClearCompletedJobs(olderThan)

SpecSweep == Init /\ [][NextSweep]_vars

\* The queue and callers that query it and keep what they were given
AddQueryJob(type) == addJob(type, nextId, MaxQueryJobs) /\ UNCHANGED <<projects, beyond>>

NextQuery ==
    \/ \E type \in JobTypes : RegisterHandler(type)
    \/ \E type \in JobTypes : AddQueryJob(type)
    \/ ProcessQueueStep
    \/ TimerFires
    \/ \E id \in Issued(MaxQueryJobs) : HandlerSettles(id)
    \/ \E id \in Passed(MaxQueryJobs), value \in ProgressInputs : UpdateJobProgress(id, value)
    \/ \E id \in Passed(MaxQueryJobs) : GetJob(id)
    \/ \E projectId \in Passed(MaxQueryJobs) : GetProjectJobs(projectId)

SpecQuery == Init /\ [][NextQuery]_vars

SpecLive ==
    /\ Init
    /\ [][NextLive]_vars
    /\ WF_vars(ProcessQueueStep)
    /\ WF_vars(TimerFires)
    /\ \A id \in 1..MaxJobs : SF_vars(HandlerSettles(id))

----------------------------------------------------------------------------
(* Pure methods: a call is drawn with its argument, the step makes it *)

\* the languages a breakdown of discoverFiles can hold (values of languageMap)
Languages == {"typescript", "javascript", "python"}

MaxLanguages == 3
MaxCount == 2

\* Object.entries(languageBreakdown): the keys are language names, none an array
\* index, so the entries come in insertion order; discoverFiles counts from 1
Breakdowns ==
    {b \in UNION {[1..len -> Languages \X (1..MaxCount)] : len \in 0..MaxLanguages} :
        \A i, j \in 1..Len(b) : i # j => b[i][1] # b[j][1]}

\* Array.prototype.sort with (a, b) => b[1] - a[1]: stable, so an entry goes behind
\* every entry whose count is not smaller
RECURSIVE SortedByCount(_)
SortedByCount(entries) ==
    IF entries = <<>> THEN <<>>
    ELSE LET last == entries[Len(entries)]
             front == SortedByCount(SubSeq(entries, 1, Len(entries) - 1))
             ahead == SelectSeq(front, LAMBDA entry : entry[2] - last[2] >= 0)
             behind == SelectSeq(front, LAMBDA entry : entry[2] - last[2] < 0)
         IN  ahead \o <<last>> \o behind

\* a sort that puts an entry ahead of the entries it ties with
getPrimaryLanguage_TiesToLast(entries) ==
    IF Len(entries) = 0 THEN "unknown"
    ELSE LET tops == {k \in 1..Len(entries) :
                          \A j \in 1..Len(entries) : entries[j][2] <= entries[k][2]}
         IN  entries[CHOOSE k \in tops : \A j \in tops : j <= k][1]

\* getPrimaryLanguage(languageBreakdown), on the entries of the breakdown
getPrimaryLanguage(entries) ==
    IF Len(entries) = 0 THEN "unknown"
    ELSE SortedByCount(entries)[1][1]

\* the calls of method fn with an argument of args, not made yet
Calls(fn, args) == {[fn |-> fn, arg |-> arg, result |-> <<>>] : arg \in args}

\* the queue, the tables and the discovery untouched, a pure call about to be made
InitCall(calls) ==
    /\ jobs = <<>>
    /\ handlers = [t \in JobTypes |-> "none"]
    /\ processing = FALSE
    /\ activeJobs = 0
    /\ drainPc = "idle"
    /\ running = [id \in AllIds |-> NotRunning]
    /\ nextId = 1
    /\ now = 0
    /\ projects = [id \in AllIds |-> NoProject]
    /\ held = NoQuery
    /\ disk = [id \in AllIds |-> NoDisk]
    /\ tables = [id \in AllIds |-> NoRows]
    /\ history = [id \in AllIds |-> NoHistory]
    /\ tree = <<>>
    /\ discovery = NoDiscovery
    /\ call \in calls
    /\ db = NoTables
    /\ analysis = [id \in AllIds |-> NoLocals]

\* the call returns
Returns(value) ==
    /\ call.result = <<>>
    /\ call' = [call EXCEPT !.result = <<value>>]
    /\ UNCHANGED <<jobs, handlers, processing, activeJobs, drainPc, running, nextId, now,
                   projects, held, fileVars, discoveryVars, dbVars>>

\* fileDiscoveryService.getPrimaryLanguage(discoveryResult.stats.languageBreakdown)
GetPrimaryLanguage ==
    /\ call.fn = "getPrimaryLanguage"
    /\ Returns(getPrimaryLanguage(call.arg))

SpecLanguage == InitCall(Calls("getPrimaryLanguage", Breakdowns)) /\ [][GetPrimaryLanguage]_vars

\* ParserService.parsers: TypeScriptParser, then PythonParser, with their
\* supportedExtensions
parsers ==
    << [language |-> "typescript",
        supportedExtensions |-> <<".ts", ".tsx", ".js", ".jsx", ".mjs", ".cjs">>],
       [language |-> "python", supportedExtensions |-> <<".py">>] >>

\* the extensions a caller passes: the supported ones, another case, an unsupported
\* one, none
Extensions == {".ts", ".tsx", ".js", ".jsx", ".mjs", ".cjs", ".py", ".PY", ".go", ""}

\* the source texts passed, and for each parser whether its parse throws on the text
SourceCodes == {"source a", "source b"}
ParseFileArgs == [sourceCode : SourceCodes, extension : Extensions,
                  throws : SUBSET (1..Len(parsers))]

\* Array.prototype.includes
Includes(seq, x) == \E k \in 1..Len(seq) : seq[k] = x

\* BaseParser.canParse(extension) of the k-th parser
ParserCanParse(k, extension) == Includes(parsers[k].supportedExtensions, extension)

\* ParserService.getParser(extension): the index found by find(), 0 for null
getParser(extension) ==
    IF \E k \in 1..Len(parsers) : ParserCanParse(k, extension)
    THEN CHOOSE k \in 1..Len(parsers) :
            /\ ParserCanParse(k, extension)
            /\ \A j \in 1..(k - 1) : ~ParserCanParse(j, extension)
    ELSE 0

\* parser.parse(sourceCode) when it returns: the parse result of that parser
ParseResultOf(k, sourceCode) == [of |-> parsers[k].language, sourceCode |-> sourceCode]

Null == [of |-> "null"]
Throw == [of |-> "thrown"]

\* a parseFile that lets the parser's exception through
parseFile_NoCatch(arg) ==
    LET parser == getParser(arg.extension)
    IN  IF parser = 0 THEN Null
        ELSE IF parser \in arg.throws THEN Throw
        ELSE ParseResultOf(parser, arg.sourceCode)

\* ParserService.parseFile(sourceCode, extension)
parseFile(arg) ==
    LET parser == getParser(arg.extension)
    IN  IF parser = 0 THEN Null
        ELSE IF parser \in arg.throws THEN Null
        ELSE ParseResultOf(parser, arg.sourceCode)

\* ParserService.canParse(extension)
canParse(extension) == \E k \in 1..Len(parsers) : ParserCanParse(k, extension)

ParseFile ==
    /\ call.fn = "parseFile"
    /\ Returns(parseFile(call.arg))

CanParse ==
    /\ call.fn = "canParse"
    /\ Returns(canParse(call.arg))

NextParserService ==
    \/ ParseFile
    \/ CanParse

SpecParserService ==
    /\ InitCall(Calls("parseFile", ParseFileArgs) \cup Calls("canParse", Extensions))
    /\ [][NextParserService]_vars

----------------------------------------------------------------------------
(* RepositoryService.handleAnalyzeJob against the tables all projects share *)

MaxStoreJobs == 2
MaxStoreFiles == 2

\* what discovery.files can be: the first n files of a repository in discovery order,
\* each with the content readFileContent returns for it
Found ==
    {[k \in 1..n |-> IF k % 2 = 1 THEN "v1" ELSE "v2"] : n \in 0..MaxStoreFiles}

\* parserService.parseFile on a content: the functions and the imports it extracts
ParseResult(content) ==
    IF content = "v1"
    THEN [functions |-> <<"f">>, imports |-> <<"os">>]
    ELSE [functions |-> <<"f", "g">>, imports |-> <<>>]

\* the records of the files lo..hi of discovery.files, as inserted: each row gets a
\* fresh id from the table
FileRecords(projectId, found, batch, rows) ==
    [k \in 1..(batch.hi - batch.lo + 1) |->
        [id |-> rows + k,
         projectId |-> projectId,
         path |-> batch.lo + k - 1,
         content |-> found[batch.lo + k - 1]]]

\* a select without its where clause
SelectFilesWhere_Every(table, projectId) == table

\* db.select().from(files).where(eq(files.projectId, projectId))
SelectFilesWhere(table, projectId) ==
    SelectSeq(table, LAMBDA row : row.projectId = projectId)

\* parseResult.functions.map(...): one record per extracted fact
FunctionRecords(file, projectId) ==
    LET functions == ParseResult(file.content).functions
    IN  [k \in 1..Len(functions) |->
            [fileId |-> file.id, projectId |-> projectId, name |-> functions[k]]]

\* parseResult.imports.map(...): one record per import
DependencyRecords(file, projectId) ==
    LET imports == ParseResult(file.content).imports
    IN  [k \in 1..Len(imports) |->
            [projectId |-> projectId, sourceFileId |-> file.id, targetFileId |-> "null",
             importSpecifier |-> imports[k]]]

\* createGitHubProject / createUploadProject, for at most MaxStoreJobs projects
CreateStoredProject ==
    /\ addJob("analyze_repository", nextId, MaxStoreJobs)
    /\ projects' = [projects EXCEPT ![nextId] = [status |-> "pending", errorMessage |-> <<>>]]
    /\ UNCHANGED beyond

\* a caller adds a second analysis job for a project whose earlier job has ended
Reanalyze(projectId) ==
    /\ projects[projectId].status # "none"
    /\ \A k \in 1..Len(jobs) :
          jobs[k].projectId = projectId => jobs[k].status \in {"completed", "failed"}
    /\ addJob("analyze_repository", projectId, MaxStoreJobs)
    /\ UNCHANGED <<projects, beyond>>

\* discovery returned the files found: progress 50, then the first batch or the select
FilesFound(id, found) ==
    /\ Awaits(id, "discover")
    /\ analysis' = [analysis EXCEPT ![id].files = found]
    /\ jobs' = updateJobProgress(jobs, id, 50)
    /\ IF 0 < Len(found)
       THEN Goto(id, "persist", 0, Len(found), 0)
       ELSE Goto(id, "select", 0, 0, 0)
    /\ UNCHANGED <<handlers, processing, activeJobs, drainPc, nextId, now, projects,
                   held, fileVars, discoveryVars, call, db>>

\* the batch starting at file i was read and its records inserted with the job's
\* projectId
RecordsInserted(id) ==
    /\ Awaits(id, "persist")
    /\ LET i == running[id].i
           n == running[id].n
       IN  /\ db' = [db EXCEPT !.files =
                        @ \o FileRecords(ProjectOf(id), analysis[id].files, Batch(i, n),
                                         Len(@))]
           /\ jobs' = updateJobProgress(jobs, id, PersistProgress(i, n))
           /\ IF i + batchSize < n
              THEN Goto(id, "persist", i + batchSize, n, 0)
              ELSE Goto(id, "select", 0, 0, 0)
    /\ UNCHANGED <<handlers, processing, activeJobs, drainPc, nextId, now, projects,
                   held, fileVars, discoveryVars, call, analysis>>

\* the select returned storedFiles: the parse loop starts, or with no row the final write
RowsSelected(id) ==
    /\ Awaits(id, "select")
    /\ LET storedFiles == SelectFilesWhere(db.files, ProjectOf(id))
       IN  /\ analysis' = [analysis EXCEPT ![id].storedFiles = storedFiles]
           /\ IF 0 < Len(storedFiles)
              THEN Goto(id, "parse", 0, 0, Len(storedFiles))
              ELSE Goto(id, "finalize", 0, 0, 0)
    /\ UNCHANGED <<jobs, handlers, processing, activeJobs, drainPc, nextId, now, projects,
                   held, fileVars, discoveryVars, call, db>>

\* the stored file at index i was parsed and its records inserted (the two inserts, one
\* after the other); after the last file of a parse batch the progress is reported
FileParsed(id) ==
    /\ Awaits(id, "parse")
    /\ LET i == running[id].i
           m == running[id].m
           file == analysis[id].storedFiles[i + 1]
           projectId == ProjectOf(id)
           start == (i \div fileBatchSize) * fileBatchSize
       IN  /\ db' = [db EXCEPT
                        !.functions = @ \o FunctionRecords(file, projectId),
                        !.dependencies = @ \o DependencyRecords(file, projectId)]
           /\ jobs' = IF i + 1 = m \/ i + 1 = start + fileBatchSize
                      THEN updateJobProgress(jobs, id, ParseProgress(start, m))
                      ELSE jobs
           /\ IF i + 1 < m
              THEN Goto(id, "parse", i + 1, 0, m)
              ELSE Goto(id, "finalize", 0, 0, 0)
    /\ UNCHANGED <<handlers, processing, activeJobs, drainPc, nextId, now, projects,
                   held, fileVars, discoveryVars, call, analysis>>

\* one step of the run of handleAnalyzeJob for job id on the shared tables
StoreStep(id) ==
    \/ StatusWritten(id)
    \/ Materialized(id)
    \/ \E found \in Found : FilesFound(id, found)
    \/ RecordsInserted(id)
    \/ RowsSelected(id)
    \/ FileParsed(id)
    \/ Finalized(id)
    \/ AnalyzeSettles(id)

\* Concurrent analysis jobs of the projects the entry points create
NextStore ==
    \/ CreateStoredProject
    \/ ProcessQueueStep
    \/ TimerFires
    \/ \E id \in Issued(MaxStoreJobs) : StoreStep(id)

SpecStore == InitAnalyze /\ [][NextStore]_vars

\* The same, with callers that queue a project's analysis again once it has ended
NextReanalysis ==
    \/ CreateStoredProject
    \/ \E projectId \in Issued(MaxStoreJobs) : Reanalyze(projectId)
    \/ ProcessQueueStep
    \/ TimerFires
    \/ \E id \in Issued(MaxStoreJobs) : StoreStep(id)

SpecReanalysis == InitAnalyze /\ [][NextReanalysis]_vars

----------------------------------------------------------------------------
(* PythonParser.parse *)

MaxLines == 3

\* identifiers as the characters they are written with
NameRun == <<"r", "u", "n">>
Names ==
    {NameRun,
     <<"_", "r", "u", "n">>,
     <<"_", "_", "r", "u", "n">>,
     <<"_", "_", "i", "n", "i", "t", "_", "_">>}
ClassName == <<"C">>

\* a line of the source, by what the scan takes from it: the number of whitespace
\* characters it starts with, whether trim() leaves nothing, and what the regular
\* expressions of matchFunction and matchClass find in the trimmed line
BlankLine == [kind |-> "blank", indent |-> 0, name |-> <<>>, isAsync |-> FALSE]
OtherLine(indent) == [kind |-> "other", indent |-> indent, name |-> <<>>, isAsync |-> FALSE]
ClassLine(indent) == [kind |-> "class", indent |-> indent, name |-> ClassName, isAsync |-> FALSE]
DefLine(indent, name, isAsync) ==
    [kind |-> "def", indent |-> indent, name |-> name, isAsync |-> isAsync]

PyLines ==
    {BlankLine}
    \cup {OtherLine(indent) : indent \in 0..2}
    \cup {ClassLine(indent) : indent \in 0..1}
    \cup {DefLine(indent, name, FALSE) : indent \in 0..1, name \in Names}
    \cup {DefLine(2, NameRun, FALSE)}
    \cup {DefLine(indent, NameRun, TRUE) : indent \in 0..1}

\* sourceCode.split('\n'): at least one line, the last one empty when the text ends
\* with a newline
Sources == UNION {[1..len -> PyLines] : len \in 1..MaxLines}

\* lines[i], with the index counted from 0 as in the source
At(lines, i) == lines[i + 1]

\* String.prototype.startsWith / endsWith
StartsWith(name, prefix) ==
    Len(name) >= Len(prefix) /\ SubSeq(name, 1, Len(prefix)) = prefix
EndsWith(name, suffix) ==
    Len(name) >= Len(suffix) /\ SubSeq(name, Len(name) - Len(suffix) + 1, Len(name)) = suffix

\* line.trim() === ''
IsBlank(line) == line.kind = "blank"

\* this.matchFunction(trimmedLine) / this.matchClass(trimmedLine) is not null
matchFunction(line) == line.kind = "def"
matchClass(line) == line.kind = "class"

\* getIndentLevel(line): the length of the leading whitespace
getIndentLevel(line) == line.indent

\* a scan that does not skip empty lines
findFunctionEnd_StopsAtBlank(lines, startLine) ==
    LET startIndent == getIndentLevel(At(lines, startLine))
        stops == {i \in (startLine + 1)..(Len(lines) - 1) :
                     getIndentLevel(At(lines, i)) <= startIndent}
    IN  IF stops = {} THEN Len(lines) - 1
        ELSE (CHOOSE i \in stops : \A j \in stops : i <= j) - 1

\* findFunctionEnd(lines, startLine): the index before the first non-empty line after
\* startLine that is indented no deeper, or the last index
findFunctionEnd(lines, startLine) ==
    LET startIndent == getIndentLevel(At(lines, startLine))
        stops == {i \in (startLine + 1)..(Len(lines) - 1) :
                     /\ ~IsBlank(At(lines, i))
                     /\ getIndentLevel(At(lines, i)) <= startIndent}
    IN  IF stops = {} THEN Len(lines) - 1
        ELSE (CHOOSE i \in stops : \A j \in stops : i <= j) - 1

\* findClassEnd(lines, startLine)
findClassEnd(lines, startLine) == findFunctionEnd(lines, startLine)

\* the accessibility extractMethods gives a method name
Accessibility(name) ==
    IF StartsWith(name, <<"_", "_">>) /\ ~EndsWith(name, <<"_", "_">>) THEN "private"
    ELSE IF StartsWith(name, <<"_">>) THEN "protected"
    ELSE "public"

\* the record pushed for the method on line i of the class className
MethodInfo(lines, i, className) ==
    [name |-> className \o <<".">> \o At(lines, i).name,
     type |-> "method",
     startLine |-> i + 1,
     endLine |-> findFunctionEnd(lines, i) + 1,
     isExported |-> Accessibility(At(lines, i).name) = "public",
     isAsync |-> At(lines, i).isAsync,
     accessibility |-> Accessibility(At(lines, i).name)]

\* extractMethods(lines, classStart, classEnd, className): the loop from index i on
RECURSIVE ExtractMethodsFrom(_, _, _, _)
ExtractMethodsFrom(lines, i, classEnd, className) ==
    IF i > classEnd THEN <<>>
    ELSE (IF matchFunction(At(lines, i)) THEN <<MethodInfo(lines, i, className)>> ELSE <<>>)
         \o ExtractMethodsFrom(lines, i + 1, classEnd, className)

extractMethods(lines, classStart, classEnd, className) ==
    ExtractMethodsFrom(lines, classStart + 1, classEnd, className)

\* the record pushed for a line on which matchFunction matches
FunctionInfo(lines, i) ==
    [name |-> At(lines, i).name,
     type |-> "function",
     startLine |-> i + 1,
     endLine |-> findFunctionEnd(lines, i) + 1,
     isExported |-> ~StartsWith(At(lines, i).name, <<"_">>),
     isAsync |-> At(lines, i).isAsync,
     accessibility |-> "undefined"]

\* the record pushed for a line on which matchClass matches
ClassInfo(lines, i) ==
    [name |-> At(lines, i).name,
     type |-> "class",
     startLine |-> i + 1,
     endLine |-> findClassEnd(lines, i) + 1,
     isExported |-> ~StartsWith(At(lines, i).name, <<"_">>),
     isAsync |-> FALSE,
     accessibility |-> "undefined"]

\* the body of parse's loop for index i: what it pushes to functions
Pushed(lines, i) ==
    (IF matchFunction(At(lines, i)) THEN <<FunctionInfo(lines, i)>> ELSE <<>>)
    \o (IF matchClass(At(lines, i))
        THEN <<ClassInfo(lines, i)>>
             \o extractMethods(lines, i, findClassEnd(lines, i), At(lines, i).name)
        ELSE <<>>)

\* parse's loop from index i on
RECURSIVE ParseFrom(_, _)
ParseFrom(lines, i) ==
    IF i >= Len(lines) THEN <<>>
    ELSE Pushed(lines, i) \o ParseFrom(lines, i + 1)

\* PythonParser.parse(sourceCode): the functions of its result
parse(lines) == ParseFrom(lines, 0)

PythonParse ==
    /\ call.fn = "parse"
    /\ Returns(parse(call.arg))

SpecPython == InitCall(Calls("parse", Sources)) /\ [][PythonParse]_vars

----------------------------------------------------------------------------
(* Properties *)

StatusIs(js, id, st) == Has(js, id) /\ JobOf(js, id).status = st
Terminal(js, id) == Has(js, id) /\ JobOf(js, id).status \in {"completed", "failed"}
Processing(js) == {k \in 1..Len(js) : js[k].status = "processing"}
NoHandlerError(type) == <<"No handler registered for job type: " \o type>>

\* C1: in every reachable state at most maxConcurrentJobs jobs have status 'processing'
C1_ConcurrencyCeiling == Cardinality(Processing(jobs)) <= maxConcurrentJobs

\* C1 witness: the ceiling is reached while another job is pending and the drain loop waits
C1_Witness ==
    /\ Cardinality(Processing(jobs)) = maxConcurrentJobs
    /\ \E k \in 1..Len(jobs) : jobs[k].status = "pending"
    /\ drainPc = "waiting"

\* C2: provided every handler call settles, every job added eventually reaches
\* 'completed' or 'failed'
C2_EveryJobTerminates ==
    \A id \in 1..MaxJobs : Has(jobs, id) ~> Terminal(jobs, id)

\* C2 witness: more jobs than the ceiling were added, one of them while the drain loop
\* was waiting for a slot, and all are terminal, one by a handler that threw
C2_Witness ==
    /\ Len(jobs) > maxConcurrentJobs
    /\ \A k \in 1..Len(jobs) : jobs[k].status \in {"completed", "failed"}
    /\ \A k \in 1..Len(jobs) : jobs[k].calls = 1
    /\ \E k \in 1..Len(jobs) : jobs[k].error = <<"boom">>

\* C3: whenever a handler's promise rejects with e, the job ends 'failed' with
\* error = e.message (whatever the message) or 'Unknown error' for a non-Error
C3_ThrowFailsJob ==
    [][\A id \in 1..MaxJobs : \A e \in Thrown :
          HandlerRejects(id, e) =>
              /\ StatusIs(jobs', id, "failed")
              /\ JobOf(jobs', id).error = <<ErrorMessage(e)>>]_vars

\* C4: a job's status changes only along pending->processing, processing->completed,
\* processing->failed and pending->failed; a terminal job's status never changes again,
\* no handler is invoked for it, and a removed job does not come back
C4_StatusTransitions ==
    [][\A id \in 1..MaxJobs :
          /\ (Has(jobs, id) /\ Has(jobs', id)
                  /\ JobOf(jobs, id).status # JobOf(jobs', id).status)
              => <<JobOf(jobs, id).status, JobOf(jobs', id).status>> \in
                     {<<"pending", "processing">>, <<"processing", "completed">>,
                      <<"processing", "failed">>, <<"pending", "failed">>}
          /\ (Terminal(jobs, id) /\ Has(jobs', id))
              => /\ JobOf(jobs', id).status = JobOf(jobs, id).status
                 /\ JobOf(jobs', id).calls = JobOf(jobs, id).calls
          /\ (Terminal(jobs, id) \/ (id < nextId /\ ~Has(jobs, id)))
              => running'[id] = NotRunning
          /\ (id < nextId /\ ~Has(jobs, id)) => ~Has(jobs', id)
          /\ (Has(jobs, id) /\ Has(jobs', id)
                  /\ JobOf(jobs', id).calls # JobOf(jobs, id).calls)
              => JobOf(jobs, id).status = "pending"]_vars

\* C4 witness: a job completed, a job failed by its handler and a job cancelled
C4_Witness ==
    /\ \E k \in 1..Len(jobs) : jobs[k].status = "completed"
    /\ \E k \in 1..Len(jobs) : jobs[k].status = "failed" /\ jobs[k].calls = 1
    /\ \E k \in 1..Len(jobs) : jobs[k].error = <<"Cancelled by user">>

\* a step takes job id from 'pending' straight to 'failed'
PendingToFailed(id) == StatusIs(jobs, id, "pending") /\ StatusIs(jobs', id, "failed")

\* C5 as claimed: a job goes from 'pending' straight to 'failed' only by a successful
\* cancelJob call
C5_OnlyCancelFailsPending ==
    [][\A id \in 1..MaxJobs :
          PendingToFailed(id) => (CancelJob(id) /\ cancelJob(jobs, id, now).ret)]_vars

\* C5 amended: a job goes from 'pending' straight to 'failed' only by a successful
\* cancelJob call or by the drain loop picking it while its type has no handler
C5_CancelOrNoHandlerFailsPending ==
    [][\A id \in 1..MaxJobs :
          PendingToFailed(id) =>
              \/ CancelJob(id) /\ cancelJob(jobs, id, now).ret
              \/ /\ drainPc = "running"
                 /\ handlers[JobOf(jobs, id).type] = "none"
                 /\ JobOf(jobs', id).error = NoHandlerError(JobOf(jobs, id).type)]_vars

\* C5 witness: a job failed for want of a handler, never handed to a handler, after
\* which a handler was registered for its type
C5_Witness ==
    \E k \in 1..Len(jobs) :
        /\ jobs[k].status = "failed"
        /\ jobs[k].calls = 0
        /\ jobs[k].error = NoHandlerError(jobs[k].type)
        /\ handlers[jobs[k].type] # "none"

\* what cancelJob(jobId) returns and leaves behind, called in the current state
CancelReturns(id) ==
    LET r == cancelJob(jobs, id, now) IN
    /\ r.ret = (\E k \in 1..Len(jobs) : jobs[k].id = id /\ jobs[k].status = "pending")
    /\ ~r.ret => r.jobs = jobs
    /\ r.ret =>
          /\ Len(r.jobs) = Len(jobs)
          /\ \A k \in 1..Len(jobs) :
                IF jobs[k].id = id
                THEN r.jobs[k] = [jobs[k] EXCEPT !.status = "failed",
                                                 !.error = <<"Cancelled by user">>,
                                                 !.completedAt = <<now>>]
                ELSE r.jobs[k] = jobs[k]

\* C6: cancelJob(jobId) returns true exactly when the job exists and is 'pending'; it
\* then sets status 'failed', error 'Cancelled by user' and completedAt; otherwise it
\* returns false and leaves the job table as it is; the call changes nothing but the
\* job table (activeJobs, the handlers and the drain loop stay as they are)
C6_CancelJob ==
    /\ [](\A id \in JobIds : CancelReturns(id))
    /\ [][\A id \in JobIds :
            CancelJob(id) =>
                /\ jobs' = cancelJob(jobs, id, now).jobs
                /\ StatusIs(jobs', id, "failed")
                /\ UNCHANGED <<handlers, processing, activeJobs, drainPc, running,
                               nextId, now, projects, beyond>>]_vars

\* C6 witness: a pending job was cancelled while another job was processing
C6_Witness ==
    /\ \E k \in 1..Len(jobs) :
          /\ jobs[k].status = "failed"
          /\ jobs[k].error = <<"Cancelled by user">>
          /\ jobs[k].completedAt = <<now>>
    /\ \E k \in 1..Len(jobs) : jobs[k].status = "processing"

\* the drain loop is about to pick the job at position k, whose type has no handler
PicksWithoutHandler(k) ==
    /\ drainPc = "running"
    /\ activeJobs < maxConcurrentJobs
    /\ k = FindPending(jobs)
    /\ k # 0
    /\ handlers[jobs[k].type] = "none"

\* C7: when the drain loop picks a pending job whose type has no handler, the job ends
\* 'failed' with error 'No handler registered for job type: <type>' in that step, no
\* handler is invoked and activeJobs is what it was
C7_NoHandlerFails ==
    [][\A k \in 1..MaxJobs :
          PicksWithoutHandler(k) =>
              /\ Len(jobs') = Len(jobs)
              /\ jobs'[k].id = jobs[k].id
              /\ jobs'[k].status = "failed"
              /\ jobs'[k].error = NoHandlerError(jobs[k].type)
              /\ \A l \in 1..Len(jobs) : jobs'[l].calls = jobs[l].calls
              /\ running' = running
              /\ activeJobs' = activeJobs]_vars

\* C7 witness: a job failed for want of a handler while another job held a slot
C7_Witness ==
    /\ \E k \in 1..Len(jobs) :
          /\ jobs[k].status = "failed"
          /\ jobs[k].error = NoHandlerError(jobs[k].type)
          /\ jobs[k].calls = 0
    /\ activeJobs = 1
    /\ \E k \in 1..Len(jobs) : jobs[k].status = "processing"

\* the ids of the pending jobs; ids are issued in the order of the addJob calls
PendingIds(js) == {js[k].id : k \in {l \in 1..Len(js) : js[l].status = "pending"}}

\* C8: every job the drain loop takes out of 'pending' is the one enqueued earliest
\* among the pending jobs, so no job starts processing while an earlier one is pending
C8_FifoDispatch ==
    [][\A id \in AllIds :
          (drainPc = "running" /\ StatusIs(jobs, id, "pending")
              /\ ~StatusIs(jobs', id, "pending"))
          => /\ \A other \in PendingIds(jobs) : id <= other
             /\ \A other \in PendingIds(jobs') : id < other]_vars

\* C8 witness: the third job holds the slot the first one freed, the second is still
\* running and the fourth still waits behind the ceiling
C8_Witness ==
    /\ Len(jobs) = 4
    /\ jobs[1].status = "completed"
    /\ jobs[2].status = "processing"
    /\ jobs[3].status = "processing"
    /\ jobs[4].status = "pending"
    /\ drainPc = "waiting"

\* C9: in every reachable state every job's progress lies in [0,100]
C9_ProgressInRange ==
    \A k \in 1..Len(jobs) : jobs[k].progress >= 0 /\ jobs[k].progress <= 100

\* C9 witness: an update above the range was clamped to 100 on a job not completed,
\* and an update below the range was clamped to 0 on a completed job
C9_Witness ==
    /\ \E k \in 1..Len(jobs) : jobs[k].status = "pending" /\ jobs[k].progress = 100
    /\ \E k \in 1..Len(jobs) : jobs[k].status = "completed" /\ jobs[k].progress = 0

\* C10: over the life of a job run by handleAnalyzeJob the values of job.progress never
\* decrease, for every number of discovered and of stored files
C10_ProgressNonDecreasing ==
    [][\A id \in AllIds :
          (Has(jobs, id) /\ Has(jobs', id))
              => JobOf(jobs', id).progress >= JobOf(jobs, id).progress]_vars

\* C10 witness: a job is past the third of three parse batches (progress 98), and
\* another job failed after the third of three persist batches (progress 82)
C10_Witness ==
    /\ \E id \in AllIds :
          /\ running[id].pc = "finalize"
          /\ StatusIs(jobs, id, "processing")
          /\ JobOf(jobs, id).progress = 98
    /\ \E id \in AllIds : StatusIs(jobs, id, "failed") /\ JobOf(jobs, id).progress = 82

\* C11: every job that has reached a terminal status shows progress 100 exactly when
\* its status is 'completed'
C11_HundredIffCompleted ==
    \A k \in 1..Len(jobs) :
        jobs[k].status \in {"completed", "failed"}
            => ((jobs[k].progress = 100) <=> (jobs[k].status = "completed"))

\* C12: a job's progress changes only in a step taken while the job is 'processing':
\* an updateJobProgress call for a pending, completed or failed job leaves it as it is
C12_ProgressOnlyWhileProcessing ==
    [][\A id \in 1..MaxJobs :
          (Has(jobs, id) /\ Has(jobs', id)
              /\ JobOf(jobs', id).progress # JobOf(jobs, id).progress)
          => JobOf(jobs, id).status = "processing"]_vars

\* the positions of the jobs a sweep with this olderThan is to remove, called now
Expired(olderThan) ==
    {k \in 1..Len(jobs) :
        /\ jobs[k].status \in {"completed", "failed"}
        /\ jobs[k].completedAt # <<>>
        /\ now - jobs[k].completedAt[1] > olderThan}

\* what clearCompletedJobs(olderThan) returns and leaves behind, called in the current state
SweepReturns(olderThan) ==
    LET kept == clearCompletedJobs(jobs, olderThan, now)
        gone == Expired(olderThan)
    IN  /\ Cleared(jobs, olderThan, now) = Cardinality(gone)
        /\ Len(kept) = Len(jobs) - Cardinality(gone)
        /\ \A k \in 1..Len(jobs) :
              k \notin gone => kept[k - Cardinality({l \in gone : l < k})] = jobs[k]
        /\ \A k \in 1..Len(jobs) :
              jobs[k].status \in {"pending", "processing"} => k \notin gone

\* C13: clearCompletedJobs(olderThan) removes exactly the 'completed' and 'failed' jobs
\* whose completedAt is more than olderThan in the past and returns their count; no
\* pending or processing job is removed, every remaining job keeps all its fields and
\* its place, and nothing but the job table changes (activeJobs stays as it is)
C13_ClearCompletedJobs ==
    /\ [](\A olderThan \in OlderThanInputs : SweepReturns(olderThan))
    /\ [][\A olderThan \in OlderThanInputs :
            ClearCompletedJobs(olderThan) =>
                /\ jobs' = clearCompletedJobs(jobs, olderThan, now)
                /\ UNCHANGED <<handlers, processing, activeJobs, drainPc, running,
                               nextId, now, projects, beyond>>]_vars

\* C13 witness: a sweep removed the first job, which had ended before the last tick,
\* and left the second, which ended after it, in the table
C13_Witness ==
    /\ nextId > 2
    /\ ~Has(jobs, 1)
    /\ Has(jobs, 2)
    /\ JobOf(jobs, 2).status \in {"completed", "failed"}
    /\ JobOf(jobs, 2).completedAt = <<now>>
    /\ now > 0

\* C14: what getJob or getProjectJobs returned keeps showing the status and progress
\* its jobs had when it was returned, whatever the queue does to them afterwards
C14_QueriesAreSnapshots == Shows(jobs, held.refs) = held.seen

\* C15: whenever an analyze_repository job is 'completed' or 'failed', however it got
\* there, the status of its project's row equals the job's status
C15_ProjectMatchesJob ==
    \A k \in 1..Len(jobs) :
        (jobs[k].type = "analyze_repository" /\ jobs[k].status \in {"completed", "failed"})
            => projects[jobs[k].projectId].status = jobs[k].status

\* C16: when a step of handleAnalyzeJob outside the per-file try blocks throws e, the
\* catch block writes status 'failed' and errorMessage = e's message to the project's
\* row, the handler rejects with e so that the job ends 'failed' with that same message,
\* and the row is not written 'completed' afterwards
C16_ThrowFailsProjectAndJob ==
    [][\A id \in Issued(MaxAnalyzeJobs) :
          /\ CatchWritten(id) =>
                projects'[ProjectOf(id)] =
                    [status |-> "failed", errorMessage |-> <<ErrorMessage(running[id].err)>>]
          /\ (AnalyzeSettles(id) /\ running[id].pc = "rejected") =>
                /\ StatusIs(jobs', id, "failed")
                /\ JobOf(jobs', id).error = <<ErrorMessage(running[id].err)>>
                /\ JobOf(jobs', id).error = projects[ProjectOf(id)].errorMessage
          /\ (Has(jobs, id) /\ projects[ProjectOf(id)].status = "failed") =>
                projects'[ProjectOf(id)].status = "failed"]_vars

\* the rows of project p in the files table, as a set
Rows(p) == {tables[p].files[k] : k \in 1..Len(tables[p].files)}

\* the files of project p the parse loop visited and whose try block threw
FailedFiles(p) ==
    {history[p].visited[k] : k \in 1..Len(history[p].visited)} \cap disk[p].unparsable

\* C17 as claimed: a job in whose parse stage a file's extraction or fact insert threw
\* ends 'failed'
C17_FileFailureFailsJob ==
    \A id \in Issued(MaxAnalyzeJobs) :
        (Terminal(jobs, id) /\ FailedFiles(ProjectOf(id)) # {})
            => JobOf(jobs, id).status = "failed"

\* C17 amended: when extraction or fact persistence throws for files in the parse stage
\* (and no job-fatal step throws), the facts of all other stored files are persisted,
\* the job does not end 'failed' but 'completed' with no error, and every job, the
\* pending jobs of other projects included, reaches 'completed'
C17_FileFailureSparesJob ==
    /\ [](\A id \in Issued(MaxAnalyzeJobs) :
            Terminal(jobs, id) =>
                /\ JobOf(jobs, id).status = "completed"
                /\ JobOf(jobs, id).error = <<>>
                /\ projects[ProjectOf(id)].status = "completed"
                /\ tables[ProjectOf(id)].facts
                       = Rows(ProjectOf(id)) \ disk[ProjectOf(id)].unparsable)
    /\ \A id \in Issued(MaxAnalyzeJobs) :
            Has(jobs, id) ~> StatusIs(jobs, id, "completed")

\* C17 witness: a job whose parse stage lost four files is completed with the facts of
\* the others, and so is the job that was created third and had to wait for a slot
C17_Witness ==
    /\ \E id \in Issued(MaxAnalyzeJobs) :
          /\ StatusIs(jobs, id, "completed")
          /\ Cardinality(FailedFiles(ProjectOf(id))) = 4
          /\ Cardinality(tables[ProjectOf(id)].facts) = 243
    /\ StatusIs(jobs, 3, "completed")

\* C18: a file whose extraction or fact insert throws is skipped: the parse loop visits
\* every stored file, in order and once, whatever failed before it, stores the facts of
\* every file that did not fail, and the handler goes on, batch after batch, to the
\* final write-back with the job still 'processing'
C18_FileFailureSkipped ==
    /\ [](\A id \in Issued(MaxAnalyzeJobs) :
            /\ running[id].pc = "parse" =>
                  history[ProjectOf(id)].visited
                      = SubSeq(tables[ProjectOf(id)].files, 1, running[id].i)
            /\ running[id].pc \in {"finalize", "resolved"} =>
                  /\ history[ProjectOf(id)].visited = tables[ProjectOf(id)].files
                  /\ tables[ProjectOf(id)].facts
                         = Rows(ProjectOf(id)) \ disk[ProjectOf(id)].unparsable)
    /\ [][\A id \in Issued(MaxAnalyzeJobs) :
            (running[id].pc = "parse" /\ running'[id] # running[id]) =>
                /\ StatusIs(jobs', id, "processing")
                /\ \/ running'[id].pc = "finalize"
                   \/ /\ running'[id].pc = "parse"
                      /\ running'[id].i = running[id].i + fileBatchSize
                      /\ running'[id].i < Len(tables[ProjectOf(id)].files)]_vars

\* C18 witness: a run is at its final write-back after a parse stage in which the first
\* file of the first batch, two files of the second and one of the last failed
C18_Witness ==
    \E id \in Issued(MaxAnalyzeJobs) :
        /\ running[id].pc = "finalize"
        /\ FailedFiles(ProjectOf(id)) = {1, 51, 52, 249}
        /\ Len(history[ProjectOf(id)].visited) = 247

\* the persist stage of the run for job id is over
PersistDone(id) ==
    \/ running[id].pc \in {"select", "parse", "finalize", "resolved"}
    \/ Terminal(jobs, id)

\* C19: the persist stage takes the discovered files in consecutive batches of at most
\* batchSize, each file in exactly one batch; a file whose read fails is left out and
\* the rest of its batch inserted; after the stage the rows of the files table are
\* exactly the discovered files whose read succeeded, each inserted once
C19_PersistBatches ==
    \A id \in Issued(MaxAnalyzeJobs) :
        Has(jobs, id) =>
            LET p == ProjectOf(id)
                bs == history[p].batches
                covered == IF bs = <<>> THEN 0 ELSE bs[Len(bs)].hi
            IN  /\ \A k \in 1..Len(bs) :
                      /\ bs[k].lo = (IF k = 1 THEN 1 ELSE bs[k - 1].hi + 1)
                      /\ bs[k].lo <= bs[k].hi
                      /\ bs[k].hi - bs[k].lo + 1 <= batchSize
                /\ covered <= disk[p].n
                /\ Rows(p) = (1..covered) \ disk[p].unreadable
                /\ Cardinality(Rows(p)) = Len(tables[p].files)
                /\ PersistDone(id) => covered = disk[p].n

\* C19 witness: a persist stage of three batches is over; the last file of the first
\* batch, the first of the second and the last of the third could not be read
C19_Witness ==
    \E id \in Issued(MaxAnalyzeJobs) :
        /\ running[id].pc = "select"
        /\ Len(history[ProjectOf(id)].batches) = 3
        /\ disk[ProjectOf(id)].unreadable = {100, 101, 250}
        /\ Len(tables[ProjectOf(id)].files) = 247

\* the positions of the listed files discoverFiles is to return
Discoverable ==
    {k \in 1..Len(tree) :
        /\ ~tree[k].statFails
        /\ 0 < tree[k].size
        /\ tree[k].size <= maxFileSize
        /\ ToLowerCase(tree[k].extname) \in {".ts", ".py"}}

\* C20: every FileInfo discoverFiles collects has 0 < size <= 1 MiB and a language
\* other than 'unknown'; the files it returns are the listed files whose stat succeeds,
\* whose size is in that range and whose extension is mapped, each once and in the
\* order listed; no file makes the call fail
C20_DiscoveredFiles ==
    /\ [](\A k \in 1..Len(discovery.fileInfos) :
            /\ 0 < discovery.fileInfos[k].size
            /\ discovery.fileInfos[k].size <= 1048576
            /\ discovery.fileInfos[k].language # "unknown")
    /\ [](discovery.pc = "done" =>
            /\ {discovery.fileInfos[k].relativePath : k \in 1..Len(discovery.fileInfos)}
                   = Discoverable
            /\ Len(discovery.fileInfos) = Cardinality(Discoverable)
            /\ \A k \in 1..Len(discovery.fileInfos) :
                  /\ discovery.fileInfos[k].size
                         = tree[discovery.fileInfos[k].relativePath].size
                  /\ \A l \in 1..(k - 1) :
                        discovery.fileInfos[l].relativePath
                            < discovery.fileInfos[k].relativePath)
    /\ [][discovery.pc = "stat" => discovery'.pc \in {"stat", "done"}]_vars

\* C20 witness: of two listed files the first could not be stat'ed and the second, of
\* exactly 1 MiB with an upper-case extension, is the one file returned
C20_Witness ==
    /\ discovery.pc = "done"
    /\ Len(tree) = 2
    /\ tree[1].statFails
    /\ tree[2].extname = ".PY"
    /\ Len(discovery.fileInfos) = 1
    /\ discovery.fileInfos[1].size = maxFileSize
    /\ discovery.fileInfos[1].language = "python"

\* C29: whenever control is back in the event loop, activeJobs equals the number of
\* 'processing' jobs and is not negative; a job that leaves 'processing' gives back
\* exactly one slot
C29_ActiveJobsCountsProcessing ==
    /\ [](AtEventLoop =>
            /\ activeJobs = Cardinality(Processing(jobs))
            /\ activeJobs >= 0)
    /\ [][\A id \in 1..MaxJobs :
            (StatusIs(jobs, id, "processing") /\ ~StatusIs(jobs', id, "processing"))
                => /\ activeJobs' = activeJobs - 1
                   /\ Terminal(jobs', id)]_vars

\* C29 witness: one job succeeded, one was failed by its handler, and the third holds
\* the only slot in use
C29_Witness ==
    /\ AtEventLoop
    /\ activeJobs = 1
    /\ \E k \in 1..Len(jobs) : jobs[k].status = "completed" /\ jobs[k].calls = 1
    /\ \E k \in 1..Len(jobs) : jobs[k].status = "failed" /\ jobs[k].calls = 1
    /\ \E k \in 1..Len(jobs) : jobs[k].status = "processing"

\* C30: whenever control is back in the event loop and some job is 'pending', the one
\* drain loop is active: the flag is set and the loop waits for a slot; the flag is set
\* exactly while the loop is active, so it is clear only when no job is pending, and a
\* drain loop is started only when none is active
C30_NoLostWakeUp ==
    /\ []((AtEventLoop /\ FindPending(jobs) # 0) =>
            (processing /\ drainPc = "waiting"))
    /\ [](processing <=> drainPc # "idle")
    /\ [](~processing => FindPending(jobs) = 0)
    /\ [][(drainPc' = "running" /\ jobs' # jobs /\ Len(jobs') > Len(jobs))
            => (drainPc = "idle" /\ ~processing)]_vars

\* C30 witness: the third job was added while the drain loop was waiting for a slot,
\* and waits with it
C30_Witness ==
    /\ Len(jobs) = 3
    /\ jobs[3].status = "pending"
    /\ jobs[1].status = "processing"
    /\ jobs[2].status = "processing"
    /\ processing
    /\ drainPc = "waiting"

\* C21: getPrimaryLanguage returns 'unknown' for an empty breakdown; otherwise a
\* language whose file count is maximal and, among those, the one inserted first; the
\* result is a function of the breakdown alone
C21_PrimaryLanguage ==
    (call.fn = "getPrimaryLanguage" /\ call.result # <<>>) =>
        LET entries == call.arg
            result == call.result[1]
        IN  /\ entries = <<>> => result = "unknown"
            /\ entries # <<>> =>
                  \E k \in 1..Len(entries) :
                     /\ entries[k][1] = result
                     /\ \A j \in 1..Len(entries) : entries[j][2] <= entries[k][2]
                     /\ \A j \in 1..(k - 1) : entries[j][2] < entries[k][2]

\* C21 witness: three languages, the last two tie for the most files: the second wins
C21_Witness ==
    /\ call.fn = "getPrimaryLanguage"
    /\ Len(call.arg) = 3
    /\ call.arg[1][2] < call.arg[2][2]
    /\ call.arg[2][2] = call.arg[3][2]
    /\ call.result = <<call.arg[2][1]>>

\* the registered parsers, in registration order, whose supportedExtensions hold ext
Supporting(ext) ==
    {k \in 1..Len(parsers) :
        \E n \in 1..Len(parsers[k].supportedExtensions) :
            parsers[k].supportedExtensions[n] = ext}

\* C22: parseFile never throws; it returns null when no registered parser supports the
\* extension or the selected parser throws, otherwise the result of the first parser in
\* registration order that supports the extension; canParse is true exactly when some
\* registered parser supports the extension
C22_ParseFileTotal ==
    /\ (call.fn = "parseFile" /\ call.result # <<>>) =>
          LET arg == call.arg
              result == call.result[1]
              first == CHOOSE k \in Supporting(arg.extension) :
                           \A j \in Supporting(arg.extension) : k <= j
          IN  /\ result # Throw
              /\ Supporting(arg.extension) = {} => result = Null
              /\ (Supporting(arg.extension) # {} /\ first \in arg.throws) => result = Null
              /\ (Supporting(arg.extension) # {} /\ first \notin arg.throws) =>
                    result = [of |-> parsers[first].language, sourceCode |-> arg.sourceCode]
    /\ (call.fn = "canParse" /\ call.result # <<>>) =>
          (call.result[1] <=> Supporting(call.arg) # {})

\* C22 witness: the Python parser throws on a '.py' file and parseFile returns null
C22_Witness ==
    /\ call.fn = "parseFile"
    /\ call.arg.extension = ".py"
    /\ call.arg.throws = {2}
    /\ call.result = <<Null>>

\* the jobs of a project that are pending or processing
NonTerminal(projectId) ==
    {k \in 1..Len(jobs) :
        jobs[k].projectId = projectId /\ jobs[k].status \in {"pending", "processing"}}

\* C23: in every state reachable through the project-creating entry points, a
\* repository has at most one pending or processing job
C23_SingleFlight == \A projectId \in AllIds : Cardinality(NonTerminal(projectId)) <= 1

\* C23 witness: three repositories were created; two have their job processing, one
\* has it pending, and each has exactly one non-terminal job
C23_Witness ==
    /\ Len(jobs) = 3
    /\ Cardinality({k \in 1..Len(jobs) : jobs[k].status = "processing"}) = 2
    /\ \A k \in 1..Len(jobs) : Cardinality(NonTerminal(jobs[k].projectId)) = 1

\* the rows a step appended to a table
Appended(before, after) == {after[k] : k \in (Len(before) + 1)..Len(after)}

\* the job whose run of handleAnalyzeJob took the step
Stepped(id) == running[id].pc # "none" /\ running'[id] # running[id]

\* C24: under any interleaving of analysis jobs of different repositories, every file
\* record, fact and dependency edge a job writes carries that job's repository id,
\* every fact and edge references a file record of the same repository, and the files a
\* job parses are those of its own repository
C24_JobsKeepToTheirRepository ==
    /\ [](\A k \in 1..Len(db.functions) :
            \E f \in 1..Len(db.files) :
               /\ db.files[f].id = db.functions[k].fileId
               /\ db.files[f].projectId = db.functions[k].projectId)
    /\ [](\A k \in 1..Len(db.dependencies) :
            \E f \in 1..Len(db.files) :
               /\ db.files[f].id = db.dependencies[k].sourceFileId
               /\ db.files[f].projectId = db.dependencies[k].projectId)
    /\ [](\A id \in Issued(MaxStoreJobs) :
            \A k \in 1..Len(analysis[id].storedFiles) :
               analysis[id].storedFiles[k].projectId = JobOf(jobs, id).projectId)
    /\ [][\A id \in Issued(MaxStoreJobs) :
            Stepped(id) =>
               \A row \in Appended(db.files, db'.files)
                          \cup Appended(db.functions, db'.functions)
                          \cup Appended(db.dependencies, db'.dependencies) :
                  row.projectId = JobOf(jobs, id).projectId]_vars

\* C24 witness: two jobs of different repositories run side by side, the second has
\* stored an edge while the first, whose files were inserted earlier, is still parsing
C24_Witness ==
    /\ Len(jobs) = 2
    /\ running[1].pc = "parse"
    /\ running[2].pc = "parse"
    /\ \E k \in 1..Len(db.dependencies) : db.dependencies[k].projectId = 2
    /\ \E k \in 1..Len(db.functions) : db.functions[k].projectId = 1
    /\ db.files[1].projectId = 1

\* the rows of a table that satisfy a test, in table order
FactsOf(table, fileId) == SelectSeq(table, LAMBDA row : row.fileId = fileId)
EdgesOf(table, fileId) == SelectSeq(table, LAMBDA row : row.sourceFileId = fileId)

\* job id is a later analysis job of a project that an earlier job has analysed
Rerun(id) ==
    /\ Has(jobs, id)
    /\ \E k \in 1..Len(jobs) :
          /\ jobs[k].id < id
          /\ jobs[k].projectId = JobOf(jobs, id).projectId
          /\ jobs[k].status = "completed"

\* C25: once a second analysis job of a project has completed, the facts stored for
\* each file of the project are exactly those of its latest parse: the earlier facts
\* are replaced, not kept alongside
C25_ReparseReplacesFacts ==
    \A id \in Issued(MaxStoreJobs) :
       (Rerun(id) /\ StatusIs(jobs, id, "completed")) =>
          \A f \in 1..Len(db.files) :
             db.files[f].projectId = JobOf(jobs, id).projectId =>
                /\ FactsOf(db.functions, db.files[f].id) =
                      [k \in 1..Len(ParseResult(db.files[f].content).functions) |->
                          [fileId |-> db.files[f].id,
                           projectId |-> db.files[f].projectId,
                           name |-> ParseResult(db.files[f].content).functions[k]]]
                /\ Len(EdgesOf(db.dependencies, db.files[f].id)) =
                      Len(ParseResult(db.files[f].content).imports)

\* a parse call has returned
Parsed == call.fn = "parse" /\ call.result # <<>>

\* the facts of the result that start on line n (counted from 1)
FactsOn(n) == {k \in 1..Len(call.result[1]) : call.result[1][k].startLine = n}

\* line n holds a def that is indented inside the body of a class
InClassBody(lines, n) ==
    \E c \in 1..(n - 1) :
       /\ lines[c].kind = "class"
       /\ lines[c].indent < lines[n].indent
       /\ \A j \in (c + 1)..(n - 1) :
             lines[j].kind = "blank" \/ lines[j].indent > lines[c].indent

\* C26: parse yields exactly one fact per definition line: a top-level def gives one
\* 'function' fact, a def indented inside a class body gives one 'method' fact named
\* Class.name and no 'function' fact
C26_OneFactPerDefinition ==
    Parsed =>
       \A n \in 1..Len(call.arg) :
          call.arg[n].kind = "def" =>
             /\ Cardinality(FactsOn(n)) = 1
             /\ InClassBody(call.arg, n) =>
                   \A k \in FactsOn(n) :
                      /\ call.result[1][k].type = "method"
                      /\ call.result[1][k].name = ClassName \o <<".">> \o call.arg[n].name
             /\ call.arg[n].indent = 0 =>
                   \A k \in FactsOn(n) : call.result[1][k].type = "function"

\* C27: a method is 'private' exactly when its name starts with two underscores and
\* does not end with two, 'protected' exactly when it starts with one underscore and
\* not two, and 'public' otherwise, as __init__ is
C27_MethodAccessibility ==
    Parsed =>
       \A k \in 1..Len(call.result[1]) :
          LET fact == call.result[1][k]
              name == call.arg[fact.startLine].name
              two == Len(name) >= 2 /\ name[1] = "_" /\ name[2] = "_"
              one == Len(name) >= 1 /\ name[1] = "_" /\ ~two
              ends == Len(name) >= 2 /\ name[Len(name)] = "_" /\ name[Len(name) - 1] = "_"
          IN  fact.type = "method" =>
                 /\ fact.accessibility = "private" <=> (two /\ ~ends)
                 /\ fact.accessibility = "protected" <=> one
                 /\ fact.accessibility = "public" <=> ~((two /\ ~ends) \/ one)

\* C28: the block of every fact ends at the line just before the next non-blank line
\* indented no deeper than its header, or at the last line when there is none, so
\* 1 <= startLine <= endLine <= number of lines
C28_BlockExtent ==
    Parsed =>
       \A k \in 1..Len(call.result[1]) :
          LET fact == call.result[1][k]
              lines == call.arg
              next == {n \in (fact.startLine + 1)..Len(lines) :
                          /\ lines[n].kind # "blank"
                          /\ lines[n].indent <= lines[fact.startLine].indent}
          IN  /\ next = {} => fact.endLine = Len(lines)
              /\ next # {} =>
                    /\ fact.endLine + 1 \in next
                    /\ \A n \in next : fact.endLine + 1 <= n
              /\ 1 <= fact.startLine
              /\ fact.startLine <= fact.endLine
              /\ fact.endLine <= Len(lines)

\* C28 witness: a function whose body is followed by a blank line and a line at its
\* own indentation ends on the blank line
C28_Witness ==
    /\ Parsed
    /\ Len(call.arg) = 3
    /\ call.arg[1].kind = "def"
    /\ call.arg[2].kind = "blank"
    /\ call.arg[3].kind = "other" /\ call.arg[3].indent = 0
    /\ \E k \in 1..Len(call.result[1]) :
          call.result[1][k].startLine = 1 /\ call.result[1][k].endLine = 2

====
